---- MODULE Spec2Model ----
(***************************************************************************)
(* Model of the batch execution pipeline of cortext-analyst-ui:            *)
(* CortexProcessor.process_csv (src/cortex_processor.py) - the per-item    *)
(* retry loop with exponential backoff, the consecutive-error throttle,    *)
(* the reply parsing, the query execution and the status bookkeeping that  *)
(* is pushed to the status callback; around it the job registry of        *)
(* src/routers/jobs.py (upload, background task, download, delete) and the *)
(* global processor of src/routers/config.py.                              *)
(*                                                                         *)
(* process_csv is sequential code; every action below is one step of it,   *)
(* selected by the program counter pc.  The values the code receives from  *)
(* outside (the rows of the CSV, the outcome of call_cortex_analyst, the   *)
(* outcome of session.sql) are drawn from small sets.                      *)
(***************************************************************************)
EXTENDS Integers, Sequences, FiniteSets, TLC

(***************************************************************************)
(* Bounds of the model.                                                    *)
(***************************************************************************)
\* longest CSV (number of rows) that is explored
MaxItems == 3
\* longest content list of a reply that is explored
MaxContent == 4

(***************************************************************************)
(* Program constants.                                                      *)
(***************************************************************************)
\* self.max_retries = 3
max_retries == 3
\* self.delay_between_requests = 5
delay_between_requests == 5
\* if consecutive_errors >= 3
ThrottleThreshold == 3
\* time.sleep(30)
ThrottlePause == 30
\* wait = 5 * (2 ** (retry - 1))
BackoffBase == 5
\* if len(qr) > 100: qr = qr[:100]
MaxResultRows == 100

\* Python's None, for the string-valued locals
None == "None"
\* Python's None for a datetime field (the clock starts at 1)
NoTime == 0

(***************************************************************************)
(* Inputs.                                                                 *)
(***************************************************************************)
\* value of a row's Question cell as line 153 sees it: "" stands for every
\* falsy value (missing column, 0, empty string), "q" for a question text
QuestionTexts == {"", "q"}

\* df.to_dict('records'): row i of the file; Ids are the 1-based positions
Row(i, q) == [Id |-> i, Question |-> q]

Batches ==
    UNION { { [i \in 1..n |-> Row(i, f[i])] : f \in [1..n -> QuestionTexts] }
            : n \in 1..MaxItems }

\* messages of the exceptions call_cortex_analyst may raise
ErrorMessages == {"e1", "e2"}

\* items of message.content: kind "dict" is a dict (type "" when it has no
\* "type" key), kind "other" is any value that is not a dict
TextItem == [kind |-> "dict", type |-> "text", text |-> "t", statement |-> ""]
SqlItem == [kind |-> "dict", type |-> "sql", text |-> "", statement |-> "s"]
\* further items: another text, another query, a tag the code does not read
LaterTextItem == [kind |-> "dict", type |-> "text", text |-> "t2", statement |-> ""]
LaterSqlItem == [kind |-> "dict", type |-> "sql", text |-> "", statement |-> "s2"]
OtherTagItem == [kind |-> "dict", type |-> "suggestions", text |-> "", statement |-> ""]
UntaggedItem == [kind |-> "dict", type |-> "", text |-> "", statement |-> ""]
NonDictItem == [kind |-> "other", type |-> "", text |-> "", statement |-> ""]

\* the "content" entry of the message: kind "absent" (no such key), "list"
\* (a list of items), "other" (a value that is no list of dicts: None, a
\* number, a text)
Content(kind, items) == [kind |-> kind, items |-> items]

\* the "message" entry of the reply: kind "absent" (no such key), "dict",
\* "other" (a value that is not a dict: None, a text, a list)
Message(kind, content) == [kind |-> kind, content |-> content]

\* a reply of call_cortex_analyst
Reply(code, message) == [error_code |-> code, message |-> message]

\* the reply with the non-retryable error code
SemanticReply == Reply("392708", Message("absent", Content("absent", << >>)))

\* replies of the shape the code expects
WellFormedReplies ==
    { Reply("", Message("dict", Content("list", <<TextItem>>))),
      Reply("", Message("dict", Content("list", <<TextItem, SqlItem>>))) }

\* replies without the error code whose shape is not the expected one
MalformedReplies ==
    { Reply("", Message("absent", Content("absent", << >>))),
      Reply("", Message("dict", Content("absent", << >>))),
      Reply("", Message("dict", Content("list", <<UntaggedItem>>))),
      Reply("", Message("other", Content("absent", << >>))),
      Reply("", Message("dict", Content("other", << >>))),
      Reply("", Message("dict", Content("list", <<NonDictItem>>))) }

\* the dict items a content list is made of
ContentAlphabet ==
    { TextItem, LaterTextItem, SqlItem, LaterSqlItem, OtherTagItem, UntaggedItem }

\* replies without the error code holding any content list of dict items
ContentReplies ==
    { Reply("", Message("dict", Content("list", c))) :
        c \in UNION { [1..n -> ContentAlphabet] : n \in 0..MaxContent } }

\* replies of call_cortex_analyst
Replies == {SemanticReply} \cup WellFormedReplies \cup MalformedReplies

\* the value of parsed before the first reply of a run
NoReply == Reply("none", Message("absent", Content("absent", << >>)))

\* numbers of rows session.sql(...).collect() may return
RowCounts == {1, 100, 101}

\* query_results: "" (no query), the serialized rows, or the error text
NoQueryResults == [kind |-> "empty", rows |-> << >>]

\* outcomes of a configure request: the constructor raises, test_connection
\* returns False, test_connection returns True
ConfigureOutcomes == {"raised", "test failed", "connected"}

\* an uploaded file: its name ends in .csv or not; its content has rows
\* under an id and a question column, lacks one of the columns, or is empty
Uploads ==
    { [csv_name |-> TRUE, content |-> "rows"],
      [csv_name |-> FALSE, content |-> "rows"],
      [csv_name |-> TRUE, content |-> "no columns"],
      [csv_name |-> TRUE, content |-> "empty"] }

\* the two result-download endpoints
DownloadKinds == {"json", "csv"}

VARIABLES
    session,            \* self.session of the installed processor is set
    now,                \* the clock read by datetime.now()
    pc,                 \* position in process_csv
    questions,          \* questions = df.to_dict('records')
    idx,                \* loop variable of the for loop over questions
    status,             \* the ProcessingStatus object of the run
    results,            \* results
    consecutive_errors, \* consecutive_errors
    retry,              \* loop variable of the retry loop
    success,            \* success
    last_error,         \* last_error
    parsed,             \* parsed, the reply of the current attempt
    sql_statement,      \* sql_statement of the current attempt
    query_results,      \* query_results of the current attempt
    \* ---- observations of the run (not program state) ----
    attempts,           \* outcomes of the external calls of the current item
    waits,              \* backoff waits slept for the current item
    pausedBefore,       \* indexes of the rows a throttle pause was taken before
    delays,             \* number of inter-item delays slept
    notified,           \* the statuses the status callback was called with
    itemStart,          \* the status as it was when the current item began
    queries,            \* outcomes of the backend queries of the current item
    \* ---- the job registry of routers/jobs.py ----
    job,                \* the ProcessingStatus object upload_csv creates
    registry,           \* processing_jobs[job_id]: the object it refers to
    seenStarted,        \* values of started_at seen in the job's status
    seenCompleted,      \* values of completed_at seen in the job's status
    \* ---- routers/config.py and the requests served ----
    processor,          \* the global processor of routers/config.py
    response            \* the answer to the last configure, upload or download

vars == << session, now, pc, questions, idx, status, results,
           consecutive_errors, retry, success, last_error, parsed,
           sql_statement, query_results,
           attempts, waits, pausedBefore, delays, notified, itemStart,
           queries, job, registry, seenStarted, seenCompleted,
           processor, response >>

locals == << retry, success, last_error, parsed, sql_statement, query_results >>
observations == << attempts, waits, pausedBefore, delays, notified, itemStart,
                   queries >>
jobstate == << job, registry, seenStarted, seenCompleted >>
app == << session, processor, response >>

(***************************************************************************)
(* ProcessingStatus (dataclass, lines 20-34).                              *)
(***************************************************************************)
ProcessingStatus(st, total) ==
    [ status |-> st, total |-> total, processed |-> 0, successful |-> 0,
      failed |-> 0, error_392708 |-> 0, started_at |-> NoTime,
      completed_at |-> NoTime, error |-> None, output_json |-> None,
      output_csv |-> None ]

Init ==
    /\ session = FALSE
    /\ processor = "none"
    /\ response = "none"
    /\ now = 1
    /\ pc = "upload"
    /\ questions \in Batches
    /\ idx = 0
    /\ status = ProcessingStatus("none", 0)
    /\ results = << >>
    /\ consecutive_errors = 0
    /\ retry = 0
    /\ success = FALSE
    /\ last_error = None
    /\ parsed = NoReply
    /\ sql_statement = ""
    /\ query_results = NoQueryResults
    /\ attempts = << >>
    /\ waits = << >>
    /\ pausedBefore = {}
    /\ delays = 0
    /\ notified = << >>
    /\ itemStart = status
    /\ queries = << >>
    /\ job = ProcessingStatus("none", 0)
    /\ registry = "none"
    /\ seenStarted = {}
    /\ seenCompleted = {}

(***************************************************************************)
(* Pure pieces of process_csv.                                             *)
(***************************************************************************)
\* line 152: qid = row.get('Id') or row.get('id') or idx
Qid(row, i) == IF row.Id # 0 THEN row.Id ELSE i

\* line 153: question = row.get('Question') or row.get('question', '')
Question(row) == row.Question

\* line 155: if not question
IsSkipped(row) == Question(row) = ""

\* line 162: if consecutive_errors >= 3
ThrottleDue(ce) == ce >= ThrottleThreshold

\* variant: one attempt too many
HasAttempt_OneMore(r) == r <= max_retries

\* line 172: for retry in range(self.max_retries)
HasAttempt(r) == r < max_retries

\* variant: the exponent is the attempt index
BackoffWait_Doubled(r) == BackoffBase * 2 ^ r

\* line 174: wait = 5 * (2 ** (retry - 1))
BackoffWait(r) == BackoffBase * 2 ^ (r - 1)

\* line 188: if parsed.get("error_code") == "392708"
IsSemanticError(reply) == reply.error_code = "392708"

\* line 189: last_error = f"Error 392708: {parsed.get('message', 'Unknown')}"
SemanticErrorText == "Error 392708: Unknown"

\* lines 192 and 253: consecutive_errors += 1
ErrorsAfterError(ce) == ce + 1

\* variant: the counter is not reset on success
ErrorsAfterSuccess_Kept(ce) == ce

\* line 246: consecutive_errors = 0
ErrorsAfterSuccess(ce) == 0

\* variant: the first error is kept
ErrorAfterRaise_KeepsFirst(prev, msg) == IF prev = None THEN msg ELSE prev

\* line 251: last_error = str(e)
ErrorAfterRaise(prev, msg) == msg

\* lines 199-203: parsed.get("message", {}).get("content", []) and item.get
\* raise when the message is not a dict, the content is not a list of dicts
\* or an item is not a dict
ParseRaises(reply) ==
    \/ reply.message.kind = "other"
    \/ /\ reply.message.kind = "dict"
       /\ \/ reply.message.content.kind = "other"
          \/ /\ reply.message.content.kind = "list"
             /\ \E k \in 1..Len(reply.message.content.items) :
                   reply.message.content.items[k].kind = "other"

\* lines 250-251: str(e) of the AttributeError or TypeError of the parsing
ParseErrorText == "object has no attribute 'get'"

\* line 199: the list the loop runs over ([] when a key is absent)
ContentItems(reply) ==
    IF reply.message.kind = "dict" /\ reply.message.content.kind = "list"
      THEN reply.message.content.items ELSE << >>

\* variant: the first item of each type is kept
RECURSIVE ExtractFrom_FirstWins(_, _, _)
ExtractFrom_FirstWins(content, interpretation, statement) ==
    IF content = << >> THEN
        [interpretation |-> interpretation, sql_statement |-> statement]
    ELSE
        LET item == Head(content) IN
        IF item.type = "text" /\ interpretation = "" THEN
            ExtractFrom_FirstWins(Tail(content), item.text, statement)
        ELSE IF item.type = "sql" /\ statement = "" THEN
            ExtractFrom_FirstWins(Tail(content), interpretation, item.statement)
        ELSE
            ExtractFrom_FirstWins(Tail(content), interpretation, statement)

\* lines 196-203: the last item of each type wins
RECURSIVE ExtractFrom(_, _, _)
ExtractFrom(content, interpretation, statement) ==
    IF content = << >> THEN
        [interpretation |-> interpretation, sql_statement |-> statement]
    ELSE
        LET item == Head(content) IN
        IF item.type = "text" THEN
            ExtractFrom(Tail(content), item.text, statement)
        ELSE IF item.type = "sql" THEN
            ExtractFrom(Tail(content), interpretation, item.statement)
        ELSE
            ExtractFrom(Tail(content), interpretation, statement)

ExtractResponse(reply) == ExtractFrom(ContentItems(reply), "", "")

\* variant: the rows are not capped
CapRows_Unbounded(qr) == qr

\* lines 214-215: if len(qr) > 100: qr = qr[:100]
CapRows(qr) == IF Len(qr) > MaxResultRows THEN SubSeq(qr, 1, MaxResultRows) ELSE qr

\* lines 218-219: the rows as a list of dicts, serialized
SerializeRows(qr) == [kind |-> "rows", rows |-> [i \in 1..Len(qr) |-> [col |-> qr[i]]]]

\* line 225: query_results = f"SQL error: {str(e)}"
SqlErrorPayload == [kind |-> "error", rows |-> << >>]

\* lines 230-243: the record of a successful item
SuccessRecord(qid, question, extracted, qres) ==
    [ question_id |-> qid, question |-> question,
      interpretation |-> extracted.interpretation,
      sql |-> extracted.sql_statement, query_results |-> qres,
      status |-> "success", error |-> None ]

\* lines 260-274: the record of a failed item
FailedRecord(qid, question, err) ==
    [ question_id |-> qid, question |-> question, interpretation |-> "",
      sql |-> "", query_results |-> NoQueryResults,
      status |-> "failed", error |-> err ]

\* variant: the semantic error is counted twice
IncSemantic_Twice(st) == [st EXCEPT !.error_392708 = @ + 2]

\* line 191: status.error_392708 += 1
IncSemantic(st) == [st EXCEPT !.error_392708 = @ + 1]
\* line 247: status.successful += 1
IncSuccessful(st) == [st EXCEPT !.successful = @ + 1]
\* variant: the failed item is not counted
IncFailed_Missing(st) == st

\* line 258: status.failed += 1
IncFailed(st) == [st EXCEPT !.failed = @ + 1]
\* line 277: status.processed += 1
IncProcessed(st) == [st EXCEPT !.processed = @ + 1]

\* line 283: if idx < len(questions)
RateLimited(i, n) == i < n

(***************************************************************************)
(* Pure pieces of routers/jobs.py.                                         *)
(***************************************************************************)
\* jobs.py lines 27-30: update_job_status stores the object it is handed,
\* not a copy, and only while the job is registered
RegistryAfterCallback(reg) == IF reg # "none" THEN "run" ELSE reg

\* cortex_processor.py line 132: the text of the exception
NotConnectedText == "Not connected to Snowflake. Call test_connection() first."

\* variant: the output paths are not recorded
Completed_NoOutputs(st, t) ==
    [st EXCEPT !.status = "completed", !.completed_at = t]

\* jobs.py lines 60-63: the fields of a completed job
Completed(st, t) ==
    [st EXCEPT !.status = "completed", !.completed_at = t,
               !.output_json = "results.json", !.output_csv = "results.csv"]

\* jobs.py lines 69-70: the fields of a failed job
Failed(st, err) == [st EXCEPT !.status = "failed", !.error = err]

\* jobs.py lines 83-91, 105-109, 138-139: the answer to an upload
UploadOutcome(proc, file) ==
    IF proc = "none" THEN "Please configure Snowflake connection first"
    ELSE IF ~file.csv_name THEN "Only CSV files are allowed"
    ELSE IF file.content = "empty" THEN "CSV file is empty"
    ELSE IF file.content = "no columns"
      THEN "CSV must have 'Id' and 'Question' columns"
    ELSE "queued"

\* the texts of the rejections of upload_csv
UploadRejections ==
    { UploadOutcome(p, f) : p \in {"none", "configured"}, f \in Uploads }
        \ {"queued"}

\* jobs.py lines 173-188 and 194-209: the file served, or the error
DownloadOutcome(reg, entry, kind) ==
    LET path == IF kind = "json" THEN entry.output_json ELSE entry.output_csv
    IN  IF reg = "none" THEN "Job not found"
        ELSE IF entry.status # "completed" THEN "Job not completed yet"
        ELSE IF path = None THEN "file not found"
        ELSE path

\* variant: the processor is installed whatever the test returns
ProcessorAfterConfigure_Untested(proc, outcome) ==
    IF outcome # "raised" THEN "configured" ELSE proc

\* config.py lines 63-64: set_processor is called only when the test succeeds
ProcessorAfterConfigure(proc, outcome) ==
    IF outcome = "connected" THEN "configured" ELSE proc

\* cortex_processor.py lines 61, 92: the session of the installed processor
SessionAfterConfigure(sess, outcome) ==
    IF outcome = "connected" THEN TRUE ELSE sess

\* config.py lines 65-77: the answer to a configure request
ConfigureResponse(outcome) ==
    IF outcome = "connected" THEN "Connection configured successfully"
    ELSE IF outcome = "test failed" THEN "Failed to connect to Snowflake"
    ELSE "configuration error"

\* the timestamps a reader of the registered job's status has seen
Seen(seen, reg, t) == IF reg = "none" \/ t = NoTime THEN seen ELSE seen \cup {t}

(***************************************************************************)
(* routers/jobs.py: upload_csv, process_questions, delete_job.             *)
(* process_questions has no await: once started it runs to its end without *)
(* another request being served.                                           *)
(***************************************************************************)
\* the status a reader of processing_jobs[job_id] sees (the job is registered)
JobView == IF registry = "run" THEN status ELSE job

(***************************************************************************)
(* routers/config.py: the global processor.  The model follows one job;    *)
(* the processor is installed before the job's upload.                     *)
(***************************************************************************)
\* config.py lines 41-77: a configure request
ConfigureConnection ==
    /\ pc = "upload"
    /\ \E outcome \in ConfigureOutcomes :
          /\ processor' = ProcessorAfterConfigure(processor, outcome)
          /\ session' = SessionAfterConfigure(session, outcome)
          /\ response' = ConfigureResponse(outcome)
    /\ UNCHANGED << jobstate, now, pc, questions, idx, status, results,
                    consecutive_errors, locals, observations >>

\* config.py lines 23-26: set_processor called by other code than the
\* endpoint, with a processor whose test_connection was never called
SetProcessor ==
    /\ pc = "upload"
    /\ processor' = "injected"
    /\ session' = FALSE
    /\ UNCHANGED << jobstate, response, now, pc, questions, idx, status,
                    results, consecutive_errors, locals, observations >>

\* variant: the job is registered before the file is checked
UploadRejected_Registers ==
    /\ pc \in {"upload", "crashed"}
    /\ \E file \in Uploads :
          /\ UploadOutcome(processor, file) # "queued"
          /\ response' = UploadOutcome(processor, file)
    /\ job' = [ProcessingStatus("queued", 0) EXCEPT !.started_at = now]
    /\ registry' = "upload"
    /\ UNCHANGED << session, processor, now, pc, questions, idx, status,
                    results, consecutive_errors, locals, observations,
                    seenStarted, seenCompleted >>

\* jobs.py lines 83-91, 105-109, 138-144: an upload is rejected
UploadRejected ==
    /\ pc \in {"upload", "crashed"}
    /\ \E file \in Uploads :
          /\ UploadOutcome(processor, file) # "queued"
          /\ response' = UploadOutcome(processor, file)
    /\ UNCHANGED << jobstate, session, processor, now, pc, questions, idx,
                    status, results, consecutive_errors, locals,
                    observations >>

\* jobs.py lines 170-209: a result download is answered
DownloadResult ==
    /\ pc \in {"completed", "job_failed", "crashed"}
    /\ \E kind \in DownloadKinds :
          response' = DownloadOutcome(registry, JobView, kind)
    /\ UNCHANGED << jobstate, session, processor, now, pc, questions, idx,
                    status, results, consecutive_errors, locals,
                    observations >>

\* jobs.py lines 93-136: an accepted upload registers the job as queued
UploadCsv ==
    /\ pc = "upload"
    /\ \E file \in Uploads : UploadOutcome(processor, file) = "queued"
    /\ response' = "queued"
    /\ job' = [ProcessingStatus("queued", Len(questions)) EXCEPT !.started_at = now]
    /\ registry' = "upload"
    /\ seenStarted' = Seen(seenStarted, registry', now)
    /\ now' = now + 1
    /\ pc' = "queued"
    /\ UNCHANGED << session, processor, questions, idx, status, results,
                    consecutive_errors, locals, observations, seenCompleted >>

\* jobs.py lines 35-49: the background task marks the job and calls
\* process_csv.  The branch of lines 36-40 (no processor: queued -> failed)
\* is never taken: an upload is accepted only with a processor installed
\* and nothing sets the global back to None.
RunnerStart ==
    /\ pc = "queued"
    /\ processor # "none"
    /\ registry # "none"
    /\ job' = IF registry = "upload" THEN [job EXCEPT !.status = "processing"] ELSE job
    /\ status' = IF registry = "run" THEN [status EXCEPT !.status = "processing"] ELSE status
    /\ pc' = "start"
    /\ UNCHANGED << app, now, questions, idx, results, consecutive_errors,
                    locals, observations, registry, seenStarted, seenCompleted >>

\* variant: the failure handler writes a new entry for the deleted job
RunnerCrashes_Reinserts ==
    /\ pc = "queued"
    /\ registry = "none"
    /\ job' = Failed(job, "KeyError")
    /\ registry' = "upload"
    /\ pc' = "job_failed"
    /\ UNCHANGED << app, now, questions, idx, status, results,
                    consecutive_errors, locals, observations, seenStarted,
                    seenCompleted >>

\* jobs.py lines 43, 67-70: the job was deleted; KeyError, and again in the handler
RunnerCrashes ==
    /\ pc = "queued"
    /\ registry = "none"
    /\ pc' = "crashed"
    /\ UNCHANGED << jobstate, app, now, questions, idx, status, results,
                    consecutive_errors, locals, observations >>

\* jobs.py lines 51-65: the results are saved and the job is completed
RunnerCompletes ==
    /\ pc = "done"
    /\ registry # "none"
    /\ job' = IF registry = "upload" THEN Completed(job, now) ELSE job
    /\ status' = IF registry = "run" THEN Completed(status, now) ELSE status
    /\ seenCompleted' = Seen(seenCompleted, registry, now)
    /\ now' = now + 1
    /\ pc' = "completed"
    /\ UNCHANGED << app, questions, idx, results, consecutive_errors,
                    locals, observations, registry, seenStarted >>

\* jobs.py lines 54-58, 67-70: saving the results fails
RunnerSaveFails ==
    /\ pc = "done"
    /\ registry # "none"
    /\ job' = IF registry = "upload" THEN Failed(job, "save error") ELSE job
    /\ status' = IF registry = "run" THEN Failed(status, "save error") ELSE status
    /\ pc' = "job_failed"
    /\ UNCHANGED << app, now, questions, idx, results, consecutive_errors,
                    locals, observations, registry, seenStarted, seenCompleted >>

\* jobs.py lines 67-70: process_csv raised; the job is failed with the text
RunnerFails ==
    /\ pc = "raised"
    /\ registry # "none"
    /\ job' = IF registry = "upload" THEN Failed(job, NotConnectedText) ELSE job
    /\ status' = IF registry = "run" THEN Failed(status, NotConnectedText) ELSE status
    /\ pc' = "job_failed"
    /\ UNCHANGED << app, now, questions, idx, results, consecutive_errors,
                    locals, observations, registry, seenStarted, seenCompleted >>

\* jobs.py lines 232-253: a registered job is removed, between two tasks
DeleteJob ==
    /\ pc \in {"queued", "completed", "job_failed"}
    /\ registry # "none"
    /\ registry' = "none"
    /\ response' = "Job deleted"
    /\ UNCHANGED << session, processor, now, pc, questions, idx, status,
                    results, consecutive_errors, locals, observations, job,
                    seenStarted, seenCompleted >>

(***************************************************************************)
(* process_csv, step by step.                                              *)
(***************************************************************************)
\* variant: the session check is missing
RaiseNotConnected_Missing ==
    /\ pc = "start"
    /\ ~session
    /\ status' = [status EXCEPT !.status = "processing",
                                !.total = Len(questions), !.started_at = now]
    /\ now' = now + 1
    /\ pc' = "for"
    /\ UNCHANGED << jobstate, app, questions, idx, results,
                    consecutive_errors, locals, observations >>

\* lines 131-132: no session, the exception leaves process_csv
RaiseNotConnected ==
    /\ pc = "start"
    /\ ~session
    /\ pc' = "raised"
    /\ UNCHANGED << jobstate, app, now, questions, idx, status, results,
                    consecutive_errors, locals, observations >>

\* lines 134-149: load the questions, initialize status, results and counter
StartBatch ==
    /\ pc = "start"
    /\ session
    /\ status' = [ProcessingStatus("processing", Len(questions))
                    EXCEPT !.started_at = now]
    /\ now' = now + 1
    /\ results' = << >>
    /\ consecutive_errors' = 0
    /\ pc' = "for"
    /\ UNCHANGED << jobstate, app, questions, idx, locals, observations >>

\* variant: the row without question text is recorded as failed
SkipRow_Failed ==
    /\ pc = "for"
    /\ idx < Len(questions)
    /\ IsSkipped(questions[idx + 1])
    /\ idx' = idx + 1
    /\ status' = IncProcessed(IncFailed(status))
    /\ results' = Append(results,
                         FailedRecord(Qid(questions[idx + 1], idx + 1), "", None))
    /\ UNCHANGED << jobstate, app, now, pc, questions, consecutive_errors,
                    locals, observations >>

\* lines 151-157: a row without question text is skipped
SkipRow ==
    /\ pc = "for"
    /\ idx < Len(questions)
    /\ IsSkipped(questions[idx + 1])
    /\ idx' = idx + 1
    /\ UNCHANGED << jobstate, app, now, pc, questions, status, results,
                    consecutive_errors, locals, observations >>

\* lines 151-159: the next row has a question
BeginItem ==
    /\ pc = "for"
    /\ idx < Len(questions)
    /\ ~IsSkipped(questions[idx + 1])
    /\ idx' = idx + 1
    /\ pc' = "throttle"
    /\ attempts' = << >>
    /\ waits' = << >>
    /\ queries' = << >>
    /\ itemStart' = status
    /\ UNCHANGED << jobstate, app, now, questions, status, results,
                    consecutive_errors, locals, pausedBefore, delays, notified >>

\* line 151: the rows are exhausted
EndLoop ==
    /\ pc = "for"
    /\ idx >= Len(questions)
    /\ pc' = "final"
    /\ UNCHANGED << jobstate, app, now, questions, idx, status, results,
                    consecutive_errors, locals, observations >>

\* lines 162-169: throttle pause, then the item's locals
ThrottlePauseStep ==
    /\ pc = "throttle"
    /\ ThrottleDue(consecutive_errors)
    /\ pausedBefore' = pausedBefore \cup {idx}
    /\ consecutive_errors' = 0
    /\ success' = FALSE
    /\ last_error' = None
    /\ retry' = 0
    /\ pc' = "retry"
    /\ UNCHANGED << jobstate, app, now, questions, idx, status, results, parsed,
                    sql_statement, query_results, attempts, waits, delays,
                    notified, itemStart, queries >>

\* lines 162, 167-169: no pause
NoThrottle ==
    /\ pc = "throttle"
    /\ ~ThrottleDue(consecutive_errors)
    /\ success' = FALSE
    /\ last_error' = None
    /\ retry' = 0
    /\ pc' = "retry"
    /\ UNCHANGED << jobstate, app, now, questions, idx, status, results,
                    consecutive_errors, parsed, sql_statement, query_results,
                    observations >>

\* lines 172-173: attempt 0 starts without a wait
FirstAttempt ==
    /\ pc = "retry"
    /\ HasAttempt(retry)
    /\ retry = 0
    /\ pc' = "call"
    /\ UNCHANGED << jobstate, app, now, questions, idx, status, results,
                    consecutive_errors, locals, observations >>

\* lines 172-176: a later attempt starts after the backoff wait
BackoffAttempt ==
    /\ pc = "retry"
    /\ HasAttempt(retry)
    /\ retry > 0
    /\ waits' = Append(waits, BackoffWait(retry))
    /\ pc' = "call"
    /\ UNCHANGED << jobstate, app, now, questions, idx, status, results,
                    consecutive_errors, locals, attempts, pausedBefore, delays,
                    notified, itemStart, queries >>

\* line 172: range(max_retries) is exhausted, the loop ends without success
RetriesExhausted ==
    /\ pc = "retry"
    /\ ~HasAttempt(retry)
    /\ pc' = "handle"
    /\ UNCHANGED << jobstate, app, now, questions, idx, status, results,
                    consecutive_errors, locals, observations >>

\* variant: the exception of call_cortex_analyst leaves process_csv
CallRaises_Propagates ==
    /\ pc = "call"
    /\ \E msg \in ErrorMessages : attempts' = Append(attempts, msg)
    /\ pc' = "raised"
    /\ UNCHANGED << jobstate, app, now, questions, idx, status, results,
                    consecutive_errors, locals, waits, pausedBefore, delays,
                    notified, itemStart, queries >>

\* lines 183, 250-253: call_cortex_analyst raises; the except clause absorbs it
CallRaises ==
    /\ pc = "call"
    /\ \E msg \in ErrorMessages :
          /\ last_error' = ErrorAfterRaise(last_error, msg)
          /\ attempts' = Append(attempts, msg)
    /\ consecutive_errors' = ErrorsAfterError(consecutive_errors)
    /\ retry' = retry + 1
    /\ pc' = "retry"
    /\ UNCHANGED << jobstate, app, now, questions, idx, status, results, success,
                    parsed, sql_statement, query_results, waits, pausedBefore,
                    delays, notified, itemStart, queries >>

\* lines 183-185: call_cortex_analyst returns a reply
CallReturns ==
    /\ pc = "call"
    /\ \E reply \in Replies :
          /\ parsed' = reply
          /\ attempts' = Append(attempts,
                                IF reply = SemanticReply THEN "semantic"
                                ELSE IF reply \in WellFormedReplies THEN "ok"
                                ELSE "odd")
    /\ pc' = "check"
    /\ UNCHANGED << jobstate, app, now, questions, idx, status, results,
                    consecutive_errors, retry, success, last_error,
                    sql_statement, query_results, waits, pausedBefore, delays,
                    notified, itemStart, queries >>

\* variant: the semantic error is retried like a transient one
SemanticError_Retried ==
    /\ pc = "check"
    /\ parsed.error_code = "392708"
    /\ last_error' = "Error 392708: Unknown"
    /\ status' = [status EXCEPT !.error_392708 = @ + 1]
    /\ consecutive_errors' = consecutive_errors + 1
    /\ retry' = retry + 1
    /\ pc' = "retry"
    /\ UNCHANGED << jobstate, app, now, questions, idx, results, success,
                    parsed, sql_statement, query_results, observations >>

\* lines 188-193: the semantic error ends the retry loop
SemanticError ==
    /\ pc = "check"
    /\ IsSemanticError(parsed)
    /\ last_error' = SemanticErrorText
    /\ status' = IncSemantic(status)
    /\ consecutive_errors' = ErrorsAfterError(consecutive_errors)
    /\ pc' = "handle"
    /\ UNCHANGED << jobstate, app, now, questions, idx, results, retry, success,
                    parsed, sql_statement, query_results, observations >>

\* lines 195-209: extract interpretation and statement from the reply
ExtractReply ==
    /\ pc = "check"
    /\ ~IsSemanticError(parsed)
    /\ ~ParseRaises(parsed)
    /\ sql_statement' = ExtractResponse(parsed).sql_statement
    /\ query_results' = NoQueryResults
    /\ pc' = IF sql_statement' # "" THEN "sql" ELSE "store"
    /\ UNCHANGED << jobstate, app, now, questions, idx, status, results,
                    consecutive_errors, retry, success, last_error, parsed,
                    observations >>

\* lines 199-203, 250-253: the parsing raises; the except clause absorbs it
ExtractRaises ==
    /\ pc = "check"
    /\ ~IsSemanticError(parsed)
    /\ ParseRaises(parsed)
    /\ last_error' = ErrorAfterRaise(last_error, ParseErrorText)
    /\ consecutive_errors' = ErrorsAfterError(consecutive_errors)
    /\ retry' = retry + 1
    /\ pc' = "retry"
    /\ UNCHANGED << jobstate, app, now, questions, idx, status, results,
                    success, parsed, sql_statement, query_results,
                    observations >>

\* lines 211-222: the backend runs the statement
SqlReturns ==
    /\ pc = "sql"
    /\ \E n \in RowCounts :
          /\ query_results' = SerializeRows(CapRows([i \in 1..n |-> i]))
          /\ queries' = Append(queries, [ok |-> TRUE, n |-> n])
    /\ pc' = "store"
    /\ UNCHANGED << jobstate, app, now, questions, idx, status, results,
                    consecutive_errors, retry, success, last_error, parsed,
                    sql_statement, attempts, waits, pausedBefore, delays,
                    notified, itemStart >>

\* variant: the backend failure reaches the except clause of the attempt
SqlFails_Propagates ==
    /\ pc = "sql"
    /\ queries' = Append(queries, [ok |-> FALSE, n |-> 0])
    /\ last_error' = "SQL error"
    /\ consecutive_errors' = consecutive_errors + 1
    /\ retry' = retry + 1
    /\ pc' = "retry"
    /\ UNCHANGED << jobstate, app, now, questions, idx, status, results,
                    success, parsed, sql_statement, query_results, attempts,
                    waits, pausedBefore, delays, notified, itemStart >>

\* lines 224-227: the backend fails; the inner except clause absorbs it
SqlFails ==
    /\ pc = "sql"
    /\ query_results' = SqlErrorPayload
    /\ queries' = Append(queries, [ok |-> FALSE, n |-> 0])
    /\ pc' = "store"
    /\ UNCHANGED << jobstate, app, now, questions, idx, status, results,
                    consecutive_errors, retry, success, last_error, parsed,
                    sql_statement, attempts, waits, pausedBefore, delays,
                    notified, itemStart >>

\* variant: success is not set
StoreResult_NoFlag ==
    /\ pc = "store"
    /\ results' = Append(results,
                         [ question_id |-> questions[idx].Id,
                           question |-> questions[idx].Question,
                           interpretation |-> "", sql |-> sql_statement,
                           query_results |-> query_results,
                           status |-> "success", error |-> None ])
    /\ consecutive_errors' = 0
    /\ status' = [status EXCEPT !.successful = @ + 1]
    /\ pc' = "handle"
    /\ UNCHANGED << jobstate, app, now, questions, idx, retry, success, last_error,
                    parsed, sql_statement, query_results, observations >>

\* lines 230-248: store the result of the successful attempt, leave the loop
StoreResult ==
    /\ pc = "store"
    /\ results' = Append(results,
                         SuccessRecord(Qid(questions[idx], idx),
                                       Question(questions[idx]),
                                       ExtractResponse(parsed), query_results))
    /\ success' = TRUE
    /\ consecutive_errors' = ErrorsAfterSuccess(consecutive_errors)
    /\ status' = IncSuccessful(status)
    /\ pc' = "handle"
    /\ UNCHANGED << jobstate, app, now, questions, idx, retry, last_error, parsed,
                    sql_statement, query_results, observations >>

\* variant: the failed record replaces the list
HandleFailure_Replaces ==
    /\ pc = "handle"
    /\ ~success
    /\ status' = IncFailed(status)
    /\ results' = << FailedRecord(Qid(questions[idx], idx),
                                  Question(questions[idx]), last_error) >>
    /\ pc' = "update"
    /\ UNCHANGED << jobstate, app, now, questions, idx, consecutive_errors, locals,
                    observations >>

\* lines 256-274: the item did not succeed
HandleFailure ==
    /\ pc = "handle"
    /\ ~success
    /\ status' = IncFailed(status)
    /\ results' = Append(results,
                         FailedRecord(Qid(questions[idx], idx),
                                      Question(questions[idx]), last_error))
    /\ pc' = "update"
    /\ UNCHANGED << jobstate, app, now, questions, idx, consecutive_errors, locals,
                    observations >>

\* line 256: the item succeeded
NoFailure ==
    /\ pc = "handle"
    /\ success
    /\ pc' = "update"
    /\ UNCHANGED << jobstate, app, now, questions, idx, status, results,
                    consecutive_errors, locals, observations >>

\* lines 277-280: count the item, call the status callback
UpdateStatus ==
    /\ pc = "update"
    /\ status' = IncProcessed(status)
    /\ notified' = Append(notified, status')
    /\ registry' = RegistryAfterCallback(registry)
    /\ seenStarted' = Seen(seenStarted, registry', status'.started_at)
    /\ seenCompleted' = Seen(seenCompleted, registry', status'.completed_at)
    /\ pc' = "rate"
    /\ UNCHANGED << job, app, now, questions, idx, results, consecutive_errors,
                    locals, attempts, waits, pausedBefore, delays, itemStart, queries >>

\* lines 283-284: inter-item delay
RateLimit ==
    /\ pc = "rate"
    /\ RateLimited(idx, Len(questions))
    /\ delays' = delays + 1
    /\ pc' = "for"
    /\ UNCHANGED << jobstate, app, now, questions, idx, status, results,
                    consecutive_errors, locals, attempts, waits, pausedBefore,
                    notified, itemStart, queries >>

\* line 283: no delay after the last row
NoRateLimit ==
    /\ pc = "rate"
    /\ ~RateLimited(idx, Len(questions))
    /\ pc' = "for"
    /\ UNCHANGED << jobstate, app, now, questions, idx, status, results,
                    consecutive_errors, locals, observations >>

\* lines 286-299: final status, last callback, return results
FinalStatus ==
    /\ pc = "final"
    /\ status' = [status EXCEPT !.completed_at = now]
    /\ now' = now + 1
    /\ notified' = Append(notified, status')
    /\ registry' = RegistryAfterCallback(registry)
    /\ seenStarted' = Seen(seenStarted, registry', status'.started_at)
    /\ seenCompleted' = Seen(seenCompleted, registry', status'.completed_at)
    /\ pc' = "done"
    /\ UNCHANGED << job, app, questions, idx, results, consecutive_errors,
                    locals, attempts, waits, pausedBefore, delays, itemStart, queries >>

Next ==
    \/ ConfigureConnection
    \/ SetProcessor
    \/ UploadRejected
    \/ UploadCsv
    \/ RunnerStart
    \/ RunnerCrashes
    \/ RunnerCompletes
    \/ RunnerSaveFails
    \/ RunnerFails
    \/ DeleteJob
    \/ DownloadResult
    \/ RaiseNotConnected
    \/ StartBatch
    \/ SkipRow
    \/ BeginItem
    \/ EndLoop
    \/ ThrottlePauseStep
    \/ NoThrottle
    \/ FirstAttempt
    \/ BackoffAttempt
    \/ RetriesExhausted
    \/ CallRaises
    \/ CallReturns
    \/ SemanticError
    \/ ExtractReply
    \/ ExtractRaises
    \/ SqlReturns
    \/ SqlFails
    \/ StoreResult
    \/ HandleFailure
    \/ NoFailure
    \/ UpdateStatus
    \/ RateLimit
    \/ NoRateLimit
    \/ FinalStatus

Spec == Init /\ [][Next]_vars

(***************************************************************************)
(* The extraction of lines 195-203 on any content list: the run of a       *)
(* one-row batch from the point where the first call has returned.         *)
(***************************************************************************)
\* the state of process_csv when the first call of a one-row batch returned
\* reply (after configure, upload, lines 131-183)
ExtractStart(reply) ==
    /\ session = TRUE
    /\ processor = "configured"
    /\ response = "queued"
    /\ now = 3
    /\ pc = "check"
    /\ questions = << Row(1, "q") >>
    /\ idx = 1
    /\ status = [ProcessingStatus("processing", 1) EXCEPT !.started_at = 2]
    /\ results = << >>
    /\ consecutive_errors = 0
    /\ retry = 0
    /\ success = FALSE
    /\ last_error = None
    /\ parsed = reply
    /\ sql_statement = ""
    /\ query_results = NoQueryResults
    /\ attempts = << "ok" >>
    /\ waits = << >>
    /\ pausedBefore = {}
    /\ delays = 0
    /\ notified = << >>
    /\ itemStart = status
    /\ queries = << >>
    /\ job = [ProcessingStatus("processing", 1) EXCEPT !.started_at = 1]
    /\ registry = "upload"
    /\ seenStarted = {1}
    /\ seenCompleted = {}

InitExtract == \E reply \in ContentReplies : ExtractStart(reply)

NextExtract ==
    \/ ExtractReply
    \/ SqlReturns
    \/ SqlFails
    \/ StoreResult

SpecExtract == InitExtract /\ [][NextExtract]_vars

(***************************************************************************)
(* Vocabulary of the properties.                                           *)
(***************************************************************************)
\* the current item is finished: counted and reported to the callback
ItemDone == pc = "rate"

\* process_csv is past its initialization and has not raised
InProcessCsv ==
    { "for", "throttle", "retry", "call", "check", "sql", "store", "handle",
      "update", "rate", "final", "done" }

\* the record of the item finished last
LastResult == results[Len(results)]

\* the rows among the first n that are not skipped
Processable(n) == { i \in 1..n : ~IsSkipped(questions[i]) }

\* number of records of the items before row q
ResultsBefore(q) == Cardinality({ k \in 1..Len(results) : results[k].question_id < q })

\* the external call raised (a transient failure)
IsTransient(outcome) == outcome \in ErrorMessages

\* every one of the first n calls of the current item raised
FirstRaised(n) == Len(attempts) >= n /\ \A k \in 1..n : IsTransient(attempts[k])

\* the retry loop of row q was entered (its throttle check is behind it)
LoopEntered(q) ==
    \/ \E k \in 1..Len(results) : results[k].question_id = q
    \/ idx = q /\ pc \in {"retry", "call", "check", "sql", "store", "handle"}

(***************************************************************************)
(* C1: when process_csv returns, processed == successful + failed and      *)
(* processed == total, also for batches with rows without question text.   *)
(* The code does not count a skipped row, so processed stays below total.  *)
(***************************************************************************)
C1_FinalCounters ==
    pc = "done" =>
        /\ status.processed = status.successful + status.failed
        /\ status.processed = status.total

(***************************************************************************)
(* C2: every status the callback receives (after each item and at          *)
(* completion) has processed == successful + failed and                    *)
(* processed <= total.                                                     *)
(***************************************************************************)
C2_CallbackCounters ==
    \A k \in 1..Len(notified) :
        /\ notified[k].processed = notified[k].successful + notified[k].failed
        /\ notified[k].processed <= notified[k].total

C2_Witness ==
    /\ pc = "done"
    /\ Len(notified) >= 3
    /\ notified[Len(notified)].failed >= 1
    /\ notified[Len(notified)].successful >= 1

(***************************************************************************)
(* C3: no per-item failure aborts the batch.  process_csv raises only      *)
(* before it iterates; every row with a question that the loop has passed  *)
(* has exactly one record, in input order, made after at least one         *)
(* external call; the failures show in the records and the failed counter  *)
(* only (the run stays in status processing).                              *)
(***************************************************************************)
C3_NoItemFailureAborts ==
    /\ pc = "raised" => (idx = 0 /\ ~session /\ results = << >>)
    /\ pc \in {"update", "rate"} => Len(attempts) >= 1
    /\ pc \in {"rate", "for", "final", "done"} =>
          /\ Len(results) = Cardinality(Processable(idx))
          /\ \A k \in 1..Len(results) :
                /\ results[k].question_id \in Processable(idx)
                /\ k > 1 => results[k - 1].question_id < results[k].question_id
          /\ status.failed =
                Cardinality({ k \in 1..Len(results) : results[k].status = "failed" })
    /\ pc \in {"final", "done"} => idx = Len(questions)
    /\ pc \in InProcessCsv => status.status = "processing"

C3_Witness ==
    /\ pc = "done"
    /\ \E k \in 1..Len(results) :
          /\ results[k].status = "failed"
          /\ k < Len(results)
    /\ \E k \in 1..Len(results) : results[k].query_results.kind = "error"

(***************************************************************************)
(* C4: at most max_retries external calls are made for an item.            *)
(***************************************************************************)
C4_AtMostMaxRetries == Len(attempts) <= max_retries

C4_Witness == ItemDone /\ Len(attempts) = max_retries

(***************************************************************************)
(* C5: an item whose first external call returns the semantic error code   *)
(* gets exactly one call and no backoff wait, adds one to error_392708     *)
(* and is recorded as failed.                                              *)
(***************************************************************************)
C5_SemanticFirstAttempt ==
    (Len(attempts) >= 1 /\ attempts[1] = "semantic") =>
        /\ Len(attempts) = 1
        /\ waits = << >>
        /\ ItemDone =>
              /\ status.error_392708 = itemStart.error_392708 + 1
              /\ status.failed = itemStart.failed + 1
              /\ status.successful = itemStart.successful
              /\ LastResult.status = "failed"
              /\ LastResult.question_id = Qid(questions[idx], idx)
              /\ LastResult.error = SemanticErrorText

C5_Witness == ItemDone /\ attempts = <<"semantic">>

(***************************************************************************)
(* C6 as stated: a question failing transiently max_retries times then     *)
(* succeeds on the final allowed attempt and is recorded as successful.    *)
(* After max_retries transient failures no attempt is left.                *)
(***************************************************************************)
C6_Original ==
    (ItemDone /\ FirstRaised(max_retries)) => LastResult.status = "success"

(***************************************************************************)
(* C6 amended: a question failing transiently max_retries - 1 times then   *)
(* succeeding on the final allowed attempt is recorded as successful, with *)
(* exactly max_retries external calls for that item.                       *)
(***************************************************************************)
C6_SuccessOnFinalAttempt ==
    ( /\ ItemDone
      /\ FirstRaised(max_retries - 1)
      /\ Len(attempts) >= max_retries
      /\ attempts[max_retries] = "ok" ) =>
        /\ Len(attempts) = max_retries
        /\ LastResult.status = "success"
        /\ LastResult.question_id = Qid(questions[idx], idx)
        /\ status.successful = itemStart.successful + 1
        /\ status.failed = itemStart.failed

C6_Witness ==
    /\ ItemDone
    /\ FirstRaised(max_retries - 1)
    /\ Len(attempts) = max_retries
    /\ attempts[max_retries] = "ok"

(***************************************************************************)
(* C7: when all max_retries attempts of an item raise, the item is         *)
(* recorded as failed, failed grows by one, successful is unchanged and    *)
(* the record's error is the message of the last raised error.             *)
(***************************************************************************)
C7_ExhaustedRetries ==
    (ItemDone /\ FirstRaised(max_retries)) =>
        /\ LastResult.status = "failed"
        /\ LastResult.question_id = Qid(questions[idx], idx)
        /\ LastResult.error = attempts[max_retries]
        /\ status.failed = itemStart.failed + 1
        /\ status.successful = itemStart.successful

C7_Witness ==
    /\ ItemDone
    /\ FirstRaised(max_retries)
    /\ attempts[1] # attempts[max_retries]

(***************************************************************************)
(* C8: three consecutive failed items (the first of them at the start of   *)
(* the batch or after a successful item) cause exactly one throttle pause  *)
(* across them and the next item, taken before the fourth item's first     *)
(* call; none before the second or the third.  The code counts failed      *)
(* attempts, so one item that exhausts its retries causes a pause.         *)
(***************************************************************************)
C8_OnePauseAfterThreeFailures ==
    \A k \in 1..(Len(results) - 2) :
        ( /\ \A j \in k..(k + 2) : results[j].status = "failed"
          /\ k > 1 => results[k - 1].status = "success" ) =>
            /\ \A j \in k..(k + 2) : results[j].question_id \notin pausedBefore
            /\ \A q \in 1..Len(questions) :
                  (ResultsBefore(q) = k + 2 /\ LoopEntered(q)) => q \in pausedBefore

(***************************************************************************)
(* C9: a throttle pause is taken before an item only if the three items    *)
(* immediately before it each ended as failed, with no pause among them:   *)
(* failed items are counted, not failed attempts.  The code counts         *)
(* attempts.                                                               *)
(***************************************************************************)
C9_PauseOnlyAfterThreeFailedItems ==
    \A q \in pausedBefore :
        LET p == ResultsBefore(q) IN
        /\ p >= ThrottleThreshold
        /\ \A j \in (p - ThrottleThreshold + 1)..p : results[j].status = "failed"
        /\ \A j \in (p - ThrottleThreshold + 2)..p :
              results[j].question_id \notin pausedBefore

(***************************************************************************)
(* C10: after an item that ends as success the consecutive-failure counter *)
(* is zero, also when attempts of that item failed before; no throttle     *)
(* pause is taken before the item that directly follows a successful item. *)
(***************************************************************************)
C10_SuccessResetsCounter ==
    /\ (ItemDone /\ LastResult.status = "success") => consecutive_errors = 0
    /\ \A q \in pausedBefore :
          LET p == ResultsBefore(q) IN
          p >= 1 => results[p].status # "success"

C10_Witness ==
    /\ ItemDone
    /\ LastResult.status = "success"
    /\ Len(attempts) = max_retries
    /\ idx \in pausedBefore
    /\ idx < Len(questions)
    /\ ~IsSkipped(questions[idx + 1])

(***************************************************************************)
(* Vocabulary of the properties about the job.                             *)
(***************************************************************************)
\* the status the callback was called with last
LastNotified == notified[Len(notified)]

(***************************************************************************)
(* C11: process_csv without a backend session raises before any item is    *)
(* processed: no external call, no backend query, no callback, no result;  *)
(* the job runner then records the job as failed with the error text.      *)
(***************************************************************************)
C11_NoSessionFailsJob ==
    /\ ~session =>
          /\ pc \notin InProcessCsv
          /\ idx = 0
          /\ attempts = << >>
          /\ queries = << >>
          /\ notified = << >>
          /\ results = << >>
    /\ (~session /\ pc = "raised") => registry # "none"
    /\ (~session /\ pc = "job_failed" /\ registry # "none") =>
          /\ JobView.status = "failed"
          /\ JobView.error = "Not connected to Snowflake. Call test_connection() first."
          /\ JobView.processed = 0
    /\ ~session => pc # "completed"

C11_Witness == ~session /\ pc = "job_failed" /\ registry # "none"

(***************************************************************************)
(* C12: the status passed to the last callback of a run has status         *)
(* completed and completed_at set.  process_csv sets completed_at but      *)
(* never the status: the last callback gets status processing.             *)
(***************************************************************************)
C12_LastCallbackCompleted ==
    pc = "done" =>
        /\ LastNotified.status = "completed"
        /\ LastNotified.completed_at # NoTime

(***************************************************************************)
(* C13: the status handed to the observer is a snapshot: the registry      *)
(* entry changes only at the notifications, so during the run it equals    *)
(* the status delivered last.  The code hands over the live object.        *)
(***************************************************************************)
C13_SnapshotIsolated ==
    (pc \in InProcessCsv /\ registry # "none" /\ notified # << >>) =>
        JobView = LastNotified

(***************************************************************************)
(* C14: over the life of a job its status shows one value of started_at    *)
(* and one value of completed_at: each is assigned once and never changes. *)
(* The code assigns each twice.                                            *)
(***************************************************************************)
C14_TimestampsAssignedOnce ==
    /\ Cardinality(seenStarted) <= 1
    /\ Cardinality(seenCompleted) <= 1

(***************************************************************************)
(* C15: for n rows returned by the backend the serialized query result     *)
(* holds min(n, 100) rows, the first ones; for n > 100 the count is 100.   *)
(***************************************************************************)
C15_RowCap ==
    (ItemDone /\ queries # << >> /\ queries[Len(queries)].ok) =>
        LET n == queries[Len(queries)].n
            payload == LastResult.query_results
        IN  /\ payload.kind = "rows"
            /\ Len(payload.rows) = IF n > 100 THEN 100 ELSE n
            /\ \A i \in 1..Len(payload.rows) : payload.rows[i] = [col |-> i]

C15_Witness ==
    /\ ItemDone
    /\ queries # << >>
    /\ queries[Len(queries)].ok
    /\ queries[Len(queries)].n > 100

(***************************************************************************)
(* C16: when the call succeeds with a query and the backend fails, the     *)
(* item is recorded as success with the error text as query_results, the   *)
(* call is not retried (no further attempt, no backoff), successful grows, *)
(* failed does not, and the consecutive-failure counter is reset.          *)
(***************************************************************************)
C16_BackendFailureIsSuccess ==
    (queries # << >> /\ ~queries[Len(queries)].ok) =>
        /\ Len(queries) = 1
        /\ attempts[Len(attempts)] = "ok"
        /\ Len(waits) = Len(attempts) - 1
        /\ pc \notin {"retry", "call", "check", "sql"}
        /\ ItemDone =>
              /\ LastResult.status = "success"
              /\ LastResult.question_id = Qid(questions[idx], idx)
              /\ LastResult.query_results.kind = "error"
              /\ status.successful = itemStart.successful + 1
              /\ status.failed = itemStart.failed
              /\ consecutive_errors = 0

C16_Witness ==
    /\ ItemDone
    /\ queries # << >>
    /\ ~queries[Len(queries)].ok
    /\ Len(attempts) = max_retries

(***************************************************************************)
(* C17: attempt 0 of an item has no backoff wait before it; attempt k >= 1 *)
(* is preceded by exactly one wait of 5 * 2^(k-1) seconds (5, 10, 20);     *)
(* no wait follows the attempt that ends the item.                         *)
(***************************************************************************)
C17_Backoff ==
    /\ waits = SubSeq(<<5, 10, 20>>, 1, Len(waits))
    /\ Len(waits) = IF pc = "call" THEN Len(attempts)
                    ELSE IF attempts = << >> THEN 0
                    ELSE Len(attempts) - 1

C17_Witness == ItemDone /\ waits = <<5, 10>>

(***************************************************************************)
(* C18: for a batch of N items the callback is called N + 1 times, once    *)
(* after every item in order and once at completion, and the processed     *)
(* value it sees goes 1, 2, ..., N, N.  A row without question text gets   *)
(* no callback (see C1).                                                   *)
(***************************************************************************)
C18_OneCallbackPerItem ==
    pc = "done" =>
        LET N == Len(questions) IN
        /\ Len(notified) = N + 1
        /\ \A k \in 1..N : notified[k].processed = k
        /\ notified[N + 1].processed = N

(***************************************************************************)
(* C19: a batch of N items incurs exactly N - 1 inter-item delays, one     *)
(* after every item but the last.  N is read either as the number of rows  *)
(* or as the number of rows with question text; the code's count is        *)
(* neither when rows without text surround an item.                        *)
(***************************************************************************)
C19_DelaysBetweenItems ==
    pc = "done" =>
        \E N \in {Len(questions), Cardinality(Processable(Len(questions)))} :
            delays = IF N = 0 THEN 0 ELSE N - 1

(***************************************************************************)
(* C20: a reply without the error code whose shape is malformed yields an  *)
(* empty interpretation and query and the item is recorded as success on   *)
(* that attempt; parsing never raises, causes no retry and no failure.     *)
(* A message or content of an unexpected type raises in the code and is    *)
(* retried like a transient failure.                                       *)
(***************************************************************************)
C20_MalformedReplyIsSuccess ==
    ItemDone =>
        \A k \in 1..Len(attempts) :
            attempts[k] = "odd" =>
                /\ k = Len(attempts)
                /\ LastResult.status = "success"
                /\ LastResult.interpretation = ""
                /\ LastResult.sql = ""

(***************************************************************************)
(* C21: for any content list of a successful reply the interpretation is   *)
(* the text of the last item tagged text and the query is the statement of *)
(* the last item tagged sql; items with other tags are ignored; with no    *)
(* item of a tag the field is empty.                                       *)
(***************************************************************************)
\* the positions of the items of the reply that carry the tag
TaggedAt(tag) ==
    { k \in 1..Len(parsed.message.content.items) :
        parsed.message.content.items[k].type = tag }

\* the last position carrying the tag
LastTagged(tag) == CHOOSE k \in TaggedAt(tag) : \A j \in TaggedAt(tag) : j <= k

ExpectedInterpretation ==
    IF TaggedAt("text") = {} THEN ""
    ELSE parsed.message.content.items[LastTagged("text")].text

ExpectedQuery ==
    IF TaggedAt("sql") = {} THEN ""
    ELSE parsed.message.content.items[LastTagged("sql")].statement

C21_LastItemWins ==
    /\ pc \in {"sql", "store", "handle"} => sql_statement = ExpectedQuery
    /\ pc = "handle" =>
          /\ LastResult.status = "success"
          /\ LastResult.interpretation = ExpectedInterpretation
          /\ LastResult.sql = ExpectedQuery

C21_Witness ==
    /\ pc = "handle"
    /\ Cardinality(TaggedAt("text")) = 2
    /\ Cardinality(TaggedAt("sql")) = 2
    /\ LastResult.interpretation = "t"
    /\ LastResult.sql = "s"

\* the start of the extraction runs is a state of the full model
C21_StartReachable == \E reply \in WellFormedReplies : ExtractStart(reply)

(***************************************************************************)
(* C22: items are processed one at a time in input order: a call or a      *)
(* query belongs to the current row, the row index only moves forward by   *)
(* one between items, and the result list holds one record per processed   *)
(* item, appended in input order and never changed or removed afterwards.  *)
(***************************************************************************)
\* the positions where an item is being worked on and has no record yet
MidItem == {"throttle", "retry", "call", "check", "sql", "store", "handle"}

C22_ResultsInOrder ==
    /\ \A k \in 1..Len(results) : results[k].question_id \in Processable(idx)
    /\ \A k \in 1..(Len(results) - 1) :
          results[k].question_id < results[k + 1].question_id
    /\ pc \notin MidItem =>
          { results[k].question_id : k \in 1..Len(results) } = Processable(idx)

C22_Step ==
    /\ idx' >= idx
    /\ idx' # idx => (pc = "for" /\ idx' = idx + 1)
    /\ Len(attempts') > Len(attempts) => (pc = "call" /\ idx' = idx)
    /\ Len(queries') > Len(queries) => (pc = "sql" /\ idx' = idx)
    /\ results' # results =>
          /\ idx' = idx
          /\ Len(results') = Len(results) + 1
          /\ SubSeq(results', 1, Len(results)) = results
          /\ results'[Len(results')].question_id = idx

C22_OneAtATimeInOrder == [] C22_ResultsInOrder /\ [][C22_Step]_vars

C22_Witness ==
    /\ pc = "done"
    /\ Len(results) = 3
    /\ results[1].status = "failed"
    /\ results[2].status = "success"
    /\ results[2].query_results.kind = "rows"
    /\ results[3].status = "failed"

(***************************************************************************)
(* C23: a row with empty question text is skipped, not failed: passing it  *)
(* makes no call, no record, no throttle pause, no delay, no notification  *)
(* and leaves successful, failed, the semantic error counter and the       *)
(* consecutive-failure counter as they were.                               *)
(***************************************************************************)
\* the loop is about to take a row without question text
AtSkippedRow ==
    pc = "for" /\ idx < Len(questions) /\ IsSkipped(questions[idx + 1])

C23_SkipStep ==
    AtSkippedRow =>
        /\ idx' = idx + 1
        /\ pc' = "for"
        /\ UNCHANGED << status, results, consecutive_errors, attempts, queries,
                        waits, pausedBefore, delays, notified, now, jobstate >>

C23_NoTrace ==
    \A i \in 1..Len(questions) :
        IsSkipped(questions[i]) =>
            /\ i \notin pausedBefore
            /\ \A k \in 1..Len(results) : results[k].question_id # i
            /\ (idx = i => pc \in {"for", "final", "done", "completed",
                                     "job_failed"})

C23_SkippedNotFailed == [] C23_NoTrace /\ [][C23_SkipStep]_vars

C23_Witness ==
    /\ pc = "for"
    /\ idx = 2
    /\ IsSkipped(questions[2])
    /\ consecutive_errors >= ThrottleThreshold
    /\ Len(notified) = 1
    /\ delays = 1

(***************************************************************************)
(* C24: at every status notification error_392708 <= failed; an item adds  *)
(* at most one to the semantic error counter, and an item that adds to it  *)
(* is counted as failed and never as successful.                           *)
(***************************************************************************)
C24_SemanticAtMostFailed ==
    /\ \A k \in 1..Len(notified) :
          notified[k].error_392708 <= notified[k].failed
    /\ ItemDone =>
          /\ status.error_392708 - itemStart.error_392708 \in {0, 1}
          /\ status.error_392708 = itemStart.error_392708 + 1 =>
                /\ status.failed = itemStart.failed + 1
                /\ status.successful = itemStart.successful
                /\ LastResult.status = "failed"
                /\ LastResult.question_id = idx

C24_Witness ==
    /\ ItemDone
    /\ status.error_392708 = itemStart.error_392708 + 1
    /\ Len(attempts) = 2
    /\ itemStart.failed > itemStart.error_392708

(***************************************************************************)
(* C25: the status of a registered job moves only along                    *)
(* queued -> processing -> completed, queued -> processing -> failed or    *)
(* queued -> failed; a completed or failed job never changes status again; *)
(* a completed job has output_json and output_csv set, and a download      *)
(* serves a file only for a completed job.                                 *)
(***************************************************************************)
StatusMoves ==
    { <<"queued", "processing">>, <<"processing", "completed">>,
      <<"processing", "failed">>, <<"queued", "failed">> }

C25_StatusStep ==
    /\ (registry = "none" /\ registry' # "none") => JobView'.status = "queued"
    /\ (registry # "none" /\ registry' # "none"
          /\ JobView'.status # JobView.status) =>
            << JobView.status, JobView'.status >> \in StatusMoves

C25_CompletedHasOutputs ==
    /\ registry # "none" =>
          /\ JobView.status \in {"queued", "processing", "completed", "failed"}
          /\ JobView.status = "completed" =>
                (JobView.output_json # None /\ JobView.output_csv # None)
    /\ response \in {"results.json", "results.csv"} =>
          (registry # "none" /\ JobView.status = "completed")
    /\ response # "file not found"
    /\ pc = "queued" => processor # "none"

C25_JobLifecycle == [] C25_CompletedHasOutputs /\ [][C25_StatusStep]_vars

C25_Witness ==
    /\ pc = "completed"
    /\ response = "results.csv"
    /\ JobView.failed > 0

(***************************************************************************)
(* C26: once delete_job has removed the job from the registry, no later    *)
(* step of its background processing (callback, completion update,         *)
(* failure update) puts an entry for it back.  delete_job is served        *)
(* between tasks: before process_questions starts or after it has ended.   *)
(***************************************************************************)
\* the job was uploaded and is not registered: it was deleted
Deleted == registry = "none" /\ pc # "upload"

C26_DeletedStep == Deleted => registry' = "none"

C26_DeletedStays ==
    /\ Deleted => pc \in {"queued", "crashed", "completed", "job_failed"}
    /\ pc = "crashed" => (Deleted /\ notified = << >> /\ results = << >>)

C26_NoReinsertion == [] C26_DeletedStays /\ [][C26_DeletedStep]_vars

C26_Witness == pc = "crashed" /\ Deleted

(***************************************************************************)
(* C27: a rejected upload (no processor, a name not ending in .csv, a CSV  *)
(* without an id or question column) leaves the registry unchanged and     *)
(* schedules no processing; an entry is created, queued and with all       *)
(* counters zero, only by an accepted upload.                              *)
(***************************************************************************)
\* an upload is accepted exactly with a processor, a .csv name and rows
C27_Accepted ==
    \A p \in {"none", "configured", "injected"}, f \in Uploads :
        UploadOutcome(p, f) = "queued" <=>
            (p # "none" /\ f.csv_name /\ f.content = "rows")

C27_NoEntryBeforeAccept ==
    /\ C27_Accepted
    /\ pc = "upload" => (registry = "none" /\ job = ProcessingStatus("none", 0))
    /\ (pc = "queued" /\ registry # "none") =>
          /\ registry = "upload"
          /\ processor # "none"
          /\ job.status = "queued"
          /\ job.total = Len(questions)
          /\ job.processed = 0 /\ job.successful = 0 /\ job.failed = 0
          /\ job.error_392708 = 0

C27_UploadStep ==
    /\ (response' \in UploadRejections /\ response' # response) =>
          UNCHANGED << job, registry, status, pc, notified, results >>
    /\ (registry = "none" /\ registry' # "none") =>
          (pc = "upload" /\ pc' = "queued" /\ response' = "queued")

C27_RejectedUploadNoJob == [] C27_NoEntryBeforeAccept /\ [][C27_UploadStep]_vars

C27_Witness ==
    /\ pc = "upload"
    /\ processor = "configured"
    /\ response = "CSV must have 'Id' and 'Question' columns"

(***************************************************************************)
(* C28: the configure endpoint replaces the global processor only when the *)
(* connection test of the new one succeeds; a failed test or a raised      *)
(* error leaves the installed processor, or its absence, as it was.  So a  *)
(* processor installed by the endpoint has a session, and uploads are      *)
(* rejected until a processor is installed.                                *)
(***************************************************************************)
ConfigureFailures == {"Failed to connect to Snowflake", "configuration error"}

C28_InstalledHasSession ==
    /\ processor = "configured" => session
    /\ processor = "none" => (pc = "upload" /\ registry = "none" /\ ~session)
    /\ response = "queued" => processor # "none"

C28_ConfigureStep ==
    /\ (response' \in ConfigureFailures /\ response' # response) =>
          (processor' = processor /\ session' = session)
    /\ (processor' # processor /\ processor' = "configured") =>
          (session' /\ response' = "Connection configured successfully")
    /\ (response' = "Connection configured successfully"
          /\ response' # response) =>
          (processor' = "configured" /\ session')
    /\ processor # "none" => processor' # "none"
    /\ (processor = "none" /\ processor' = "none") => registry' = "none"

C28_ConfigureInstallsOnSuccess ==
    [] C28_InstalledHasSession /\ [][C28_ConfigureStep]_vars

C28_Witness ==
    /\ pc = "upload"
    /\ processor = "injected"
    /\ ~session
    /\ response = "Failed to connect to Snowflake"
====
